---- MODULE Spec2Model ----
(***************************************************************************)
(* XSETTINGS client binding (src/lib.rs).  The Rust layer (Client,         *)
(* Setting, SettingData, the two trampolines) is modelled from its code.   *)
(* The native client it drives through the extern block (the blob codec,   *)
(* the differ and the owner-window state machine) has no body under src/;  *)
(* those definitions follow sections 3, 4 and 6 of the specification.      *)
(* The watch callback's event mask is passed through unchanged and is not  *)
(* modelled.                                                               *)
(***************************************************************************)
EXTENDS Integers, Sequences, FiniteSets, TLC

\* ------------------------------------------------------------ constants

\* enum XSettingsAction
ActionNew == 0
ActionChanged == 1
ActionDeleted == 2

\* enum XSettingsType
TypeInt == 0
TypeString == 1
TypeColor == 2
TypeNone == 255

\* enum XSettingsResult
Success == 0
NoMem == 1
Access == 2
Failed == 3
NoEntry == 4
DuplicateEntry == 5

\* x11_dl::xlib::False, and the other value of a C Bool
XFalse == 0
XTrue == 1

\* byte-order marker of a blob (first byte)
LSBFirst == 0
MSBFirst == 1

\* ------------------------------------------------------------ bounds

\* most settings in one generated blob
MaxSettings == 2
\* most owned Settings the caller holds at once
MaxOwned == 2
\* window ids are 1..MaxWindow; 0 is "no window"
MaxWindow == 2

\* ------------------------------------------------------------ helpers

\* the concatenation of the sequences ss[1], ..., ss[n]
Flatten(ss, n) ==
    LET F[i \in 0..n] == IF i = 0 THEN <<>> ELSE F[i - 1] \o ss[i]
    IN  F[n]

NoDupNames(list) ==
    \A i, j \in 1..Len(list) : list[i].name = list[j].name => i = j

HasName(list, name) == \E i \in 1..Len(list) : list[i].name = name

IndexOf(list, name) == CHOOSE i \in 1..Len(list) : list[i].name = name

\* ------------------------------------------------------------ C strings

\* CStr::from_ptr(p).to_bytes(): the bytes before the first NUL.
RECURSIVE CStrBytes(_)
CStrBytes(bytes) ==
    IF bytes = <<>> \/ Head(bytes) = 0 THEN <<>>
    ELSE <<Head(bytes)>> \o CStrBytes(Tail(bytes))

\* CString::new(bytes): Ok unless a byte is NUL.
CStringNewOk(bytes) == \A i \in 1..Len(bytes) : bytes[i] # 0

\* ------------------------------------------------------------ wire format

Pad(n) == (4 - (n % 4)) % 4

Zeros(n) == [i \in 1..n |-> 0]

PutCard16(v, order) ==
    IF order = MSBFirst THEN <<v \div 256, v % 256>> ELSE <<v % 256, v \div 256>>

PutCard32(v, order) ==
    LET b0 == v % 256
        b1 == (v \div 256) % 256
        b2 == (v \div 65536) % 256
        b3 == (v \div 16777216) % 256
    IN  IF order = MSBFirst THEN <<b3, b2, b1, b0>> ELSE <<b0, b1, b2, b3>>

\* a signed 32-bit integer as its two's-complement bytes
PutInt32(v, order) ==
    IF v >= 0 THEN PutCard32(v, order)
    ELSE LET u == v + 2147483647 + 1        \* v + 2^31, in 0..2^31-1
             low == PutCard32(u, MSBFirst)
             big == <<low[1] + 128, low[2], low[3], low[4]>>
         IN  IF order = MSBFirst THEN big ELSE <<big[4], big[3], big[2], big[1]>>

GetCard16(b, pos, order) ==
    IF order = MSBFirst THEN b[pos] * 256 + b[pos + 1] ELSE b[pos] + b[pos + 1] * 256

\* bytes pos..pos+3, most significant first
Quad(b, pos, order) ==
    IF order = MSBFirst THEN <<b[pos], b[pos + 1], b[pos + 2], b[pos + 3]>>
    ELSE <<b[pos + 3], b[pos + 2], b[pos + 1], b[pos]>>

\* an unsigned 32-bit field; a value of 2^31 or more is reported as 2^31-1,
\* which as a length or a count exceeds every buffer of the model
GetCard32(b, pos, order) ==
    LET q == Quad(b, pos, order)
    IN  IF q[1] >= 128 THEN 2147483647
        ELSE ((q[1] * 256 + q[2]) * 256 + q[3]) * 256 + q[4]

GetInt32(b, pos, order) ==
    LET q == Quad(b, pos, order)
        hi == IF q[1] >= 128 THEN q[1] - 256 ELSE q[1]
    IN  ((hi * 256 + q[2]) * 256 + q[3]) * 256 + q[4]

EncodeValue(type, value, order) ==
    CASE type = TypeInt -> PutInt32(value, order)
      [] type = TypeString ->
            PutCard32(Len(value), order) \o value \o Zeros(Pad(Len(value)))
      [] type = TypeColor ->
            PutCard16(value[1], order) \o PutCard16(value[2], order)
              \o PutCard16(value[3], order) \o PutCard16(value[4], order)

EncodeSetting(s, order) ==
    <<s.type, 0>> \o PutCard16(Len(s.name), order) \o s.name
       \o Zeros(Pad(Len(s.name))) \o PutCard32(s.serial, order)
       \o EncodeValue(s.type, s.value, order)

Encode(list, order, serial) ==
    <<order, 0, 0, 0>> \o PutCard32(serial, order) \o PutCard32(Len(list), order)
       \o Flatten([i \in 1..Len(list) |-> EncodeSetting(list[i], order)], Len(list))

DecodeFailed == [ok |-> FALSE, list |-> <<>>]

\* the duplicate test as it would be if a second record of a name were let in
DuplicateName_tolerated(acc, name) == FALSE

\* a record whose name was decoded before: DuplicateEntry
DuplicateName(acc, name) == HasName(acc, name)

\* the records of a blob from byte pos on: n records left, acc decoded so far
RECURSIVE ParseRecords(_, _, _, _, _)
ParseRecords(b, pos, n, order, acc) ==
    IF n = 0 THEN [ok |-> TRUE, list |-> acc]
    ELSE IF pos + 3 > Len(b) THEN DecodeFailed
    ELSE
      LET type == b[pos]
          nameLen == GetCard16(b, pos + 2, order)
          namePos == pos + 4
          serialPos == namePos + nameLen + Pad(nameLen)
          valuePos == serialPos + 4
      IN  IF type \notin {TypeInt, TypeString, TypeColor} THEN DecodeFailed
          ELSE IF valuePos - 1 > Len(b) THEN DecodeFailed
          ELSE
            LET name == SubSeq(b, namePos, namePos + nameLen - 1)
                serial == GetCard32(b, serialPos, order)
            IN  IF DuplicateName(acc, name) THEN DecodeFailed
                ELSE
                  CASE type = TypeInt ->
                         IF valuePos + 3 > Len(b) THEN DecodeFailed
                         ELSE ParseRecords(b, valuePos + 4, n - 1, order,
                                Append(acc, [name |-> name, type |-> type,
                                             value |-> GetInt32(b, valuePos, order),
                                             serial |-> serial]))
                    [] type = TypeString ->
                         IF valuePos + 3 > Len(b) THEN DecodeFailed
                         ELSE LET vlen == GetCard32(b, valuePos, order)
                                  vend == valuePos + 4 + vlen + Pad(vlen)
                              IN  IF vlen > Len(b) \/ vend - 1 > Len(b) THEN DecodeFailed
                                  ELSE ParseRecords(b, vend, n - 1, order,
                                         Append(acc, [name |-> name, type |-> type,
                                                      value |-> SubSeq(b, valuePos + 4,
                                                                       valuePos + 3 + vlen),
                                                      serial |-> serial]))
                    [] type = TypeColor ->
                         IF valuePos + 7 > Len(b) THEN DecodeFailed
                         ELSE ParseRecords(b, valuePos + 8, n - 1, order,
                                Append(acc, [name |-> name, type |-> type,
                                             value |-> <<GetCard16(b, valuePos, order),
                                                         GetCard16(b, valuePos + 2, order),
                                                         GetCard16(b, valuePos + 4, order),
                                                         GetCard16(b, valuePos + 6, order)>>,
                                             serial |-> serial]))

Decode(b) ==
    IF Len(b) < 12 THEN DecodeFailed
    ELSE IF b[1] \notin {LSBFirst, MSBFirst} THEN DecodeFailed
    ELSE ParseRecords(b, 13, GetCard32(b, 9, b[1]), b[1], <<>>)

\* ------------------------------------------------------------ inputs

Windows == 1..MaxWindow

NameLower == <<97>>          \* "a"
NameUpper == <<65>>          \* "A"
NameAbsent == <<98>>         \* "b", in no blob
NameWithNul == <<97, 0>>     \* "a\0"

BlobNames == {NameLower, NameUpper}

LookupNames == {NameLower, NameUpper, NameAbsent, NameWithNul}

\* (type, value, last-change serial) of the generated entries
Payloads ==
    { [type |-> TypeInt, value |-> 1, serial |-> 1],
      [type |-> TypeInt, value |-> 1, serial |-> 2],
      [type |-> TypeInt, value |-> -2, serial |-> 1],
      [type |-> TypeString, value |-> <<120>>, serial |-> 1] }

Entry(n, p) == [name |-> n, type |-> p.type, value |-> p.value, serial |-> p.serial]

\* "a" with every payload; "A" with one integer and the string
Entries ==
    {Entry(NameLower, p) : p \in Payloads}
    \cup {Entry(NameUpper, p) : p \in {q \in Payloads : q.type = TypeString \/ (q.serial = 1 /\ q.value = 1)}}

RECURSIVE ListsUpTo(_)
ListsUpTo(n) ==
    IF n = 0 THEN {<<>>}
    ELSE LET shorter == ListsUpTo(n - 1)
         IN  shorter \cup {Append(l, e) : l \in {x \in shorter : Len(x) = n - 1},
                                          e \in Entries}

\* every list of at most MaxSettings entries, names repeated or not
SettingLists == ListsUpTo(MaxSettings)

SampleList == <<[name |-> NameLower, type |-> TypeString, value |-> <<120>>, serial |-> 1]>>

SampleBlob == Encode(SampleList, LSBFirst, 1)

\* a blob as the property read returns it, with the kind it was generated as
\* source: the list a well-formed blob was encoded from
Blobs ==
    {[kind |-> IF NoDupNames(l) THEN "good" ELSE "duplicate",
      source |-> IF NoDupNames(l) THEN l ELSE <<>>,
      bytes |-> Encode(l, LSBFirst, 1)] : l \in SettingLists}
    \cup {[kind |-> "good", source |-> l, bytes |-> Encode(l, MSBFirst, 2)] :
            l \in {x \in SettingLists : Len(x) <= 1}}
    \cup {[kind |-> "truncated", source |-> <<>>, bytes |-> SubSeq(SampleBlob, 1, k)] :
            k \in 0..(Len(SampleBlob) - 1)}
    \cup {[kind |-> "tag", source |-> <<>>, bytes |-> [SampleBlob EXCEPT ![13] = t]] :
            t \in {3, TypeNone}}
    \cup {[kind |-> "namelen", source |-> <<>>, bytes |-> [SampleBlob EXCEPT ![15] = 200]]}
    \cup {[kind |-> "count", source |-> <<>>, bytes |-> [SampleBlob EXCEPT ![9] = 2]]}

\* read_property followed by the codec, for every blob: the kind of the blob
\* read and what the codec makes of it
Reads == {[kind |-> b.kind, source |-> b.source, d |-> Decode(b.bytes)] : b \in Blobs}

PropertyNotify(w) == [type |-> "PropertyNotify", window |-> w, settings |-> TRUE]
OwnerChange(forSettings) == [type |-> "OwnerChange", window |-> 0, settings |-> forSettings]
OtherEvent(w) == [type |-> "Other", window |-> w, settings |-> FALSE]

\* ------------------------------------------------------------ state

VARIABLES
    phase,      \* "unbuilt", "live", "panicked", "dropping", "destroyed"
    owner,      \* the settings-owner window the client tracks, 0 for none
    snapshot,   \* the live list of settings
    calls,      \* the closure invocations of the last operation, in order
    watching,   \* the windows whose latest watch call was a start
    last,       \* the last operation, its input and what it returned
    owned,      \* the owned Settings the caller holds: their pointers
    heap,       \* the storage of owned Settings, by address
    fault,      \* "none", or what went wrong with the storage
    client      \* the Client value, its native client and its closures

vars == <<phase, owner, snapshot, calls, watching, last, owned, heap, fault, client>>

NullSetting == [name |-> <<>>, type |-> TypeNone, value |-> 0, serial |-> 0]

NoEvent == [type |-> "none", window |-> 0, settings |-> FALSE]

\* kind, source: of the blob read, when the operation read one
NoOp == [op |-> "none", event |-> NoEvent, kind |-> "none", source |-> <<>>,
         resolved |-> 0, decoded |-> "none", arg |-> <<>>,
         ret |-> [tag |-> "none", val |-> 0]]

Here == [owner |-> owner, snapshot |-> snapshot, watching |-> watching]

\* ------------------------------------------------------------ native client

\* a pointer to a NUL-terminated copy of the bytes
CStr(bytes) == Append(bytes, 0)

\* live: the list the session holds while the call is made
NativeNotify(entry, action, setting, live) ==
    [fn |-> "notify", name |-> CStr(entry.name), action |-> action, setting |-> setting,
     live |-> live]

NativeWatch(window, isStart) == [fn |-> "watch", window |-> window, is_start |-> isStart]

SameValue(a, b) == a.type = b.type /\ a.value = b.value

\* the differ: New and Changed in the order of the new list, then Deleted in
\* the order of the old list
DiffActions(oldList, newList, live) ==
    LET Fresh(e) ==
            IF ~HasName(oldList, e.name) THEN <<NativeNotify(e, ActionNew, e, live)>>
            ELSE IF ~SameValue(oldList[IndexOf(oldList, e.name)], e)
                 THEN <<NativeNotify(e, ActionChanged, e, live)>>
                 ELSE <<>>
        Gone(e) ==
            IF ~HasName(newList, e.name)
            THEN <<NativeNotify(e, ActionDeleted, NullSetting, live)>> ELSE <<>>
    IN  Flatten([i \in 1..Len(newList) |-> Fresh(newList[i])], Len(newList))
          \o Flatten([i \in 1..Len(oldList) |-> Gone(oldList[i])], Len(oldList))

Quiet(st) == [owner |-> st.owner, snapshot |-> st.snapshot,
              notify |-> <<>>, watch |-> <<>>, decoded |-> "none"]

\* the owner window is gone: Deleted for every entry, then the stop
Unbind(st) ==
    IF st.owner = 0 THEN Quiet(st)
    ELSE [owner |-> 0, snapshot |-> <<>>,
          notify |-> DiffActions(st.snapshot, <<>>, st.snapshot),
          watch |-> <<NativeWatch(st.owner, XFalse)>>, decoded |-> "none"]

\* bind to the resolved owner r (0: none found): the start, then the decode
Bind(r, read) ==
    IF r = 0
    THEN [owner |-> 0, snapshot |-> <<>>, notify |-> <<>>, watch |-> <<>>,
          decoded |-> "none"]
    ELSE LET d == read.d
         IN  IF d.ok
             THEN [owner |-> r, snapshot |-> d.list,
                   notify |-> DiffActions(<<>>, d.list, d.list),
                   watch |-> <<NativeWatch(r, XTrue)>>, decoded |-> "ok"]
             ELSE [owner |-> 0, snapshot |-> <<>>, notify |-> <<>>,
                   watch |-> <<NativeWatch(r, XTrue)>>, decoded |-> "failed"]

\* Reread as it would be if a failed decode dropped the old list
Reread_clearing(st, read) ==
    LET d == read.d
    IN  [owner |-> st.owner, snapshot |-> d.list,
         notify |-> DiffActions(st.snapshot, d.list, d.list), watch |-> <<>>,
         decoded |-> IF d.ok THEN "ok" ELSE "failed"]

\* the tracked window's property changed: decode, diff, replace
Reread(st, read) ==
    LET d == read.d
    IN  IF d.ok
        THEN [owner |-> st.owner, snapshot |-> d.list,
              notify |-> DiffActions(st.snapshot, d.list, d.list), watch |-> <<>>,
              decoded |-> "ok"]
        ELSE [owner |-> st.owner, snapshot |-> st.snapshot, notify |-> <<>>,
              watch |-> <<>>, decoded |-> "failed"]

\* the calls of one native operation, in the order they are made
CallsOf(first, second) ==
    first.notify \o first.watch \o second.watch \o second.notify

xsettings_client_new(r, read) ==
    LET b == Bind(r, read)
    IN  [owner |-> b.owner, snapshot |-> b.snapshot, decoded |-> b.decoded,
         calls |-> CallsOf(Quiet(b), b)]

xsettings_client_process_event(st, ev, r, read) ==
    IF ev.type = "PropertyNotify" /\ st.owner # 0 /\ ev.window = st.owner
    THEN LET u == Reread(st, read)
         IN  [owner |-> u.owner, snapshot |-> u.snapshot, decoded |-> u.decoded,
              calls |-> CallsOf(Quiet(st), u), ret |-> XTrue]
    ELSE IF ev.type = "OwnerChange" /\ ev.settings
    THEN LET gone == Unbind(st)
             b == Bind(r, read)
         IN  [owner |-> b.owner, snapshot |-> b.snapshot, decoded |-> b.decoded,
              calls |-> CallsOf(gone, b), ret |-> XTrue]
    ELSE [owner |-> st.owner, snapshot |-> st.snapshot, decoded |-> "none",
          calls |-> <<>>, ret |-> XFalse]

\* name: a C string
xsettings_client_get_setting(st, name) ==
    LET key == CStrBytes(name)
    IN  IF HasName(st.snapshot, key)
        THEN [result |-> Success, setting |-> st.snapshot[IndexOf(st.snapshot, key)]]
        ELSE [result |-> NoEntry, setting |-> NullSetting]

xsettings_setting_copy(setting) == setting

xsettings_setting_equal(a, b) ==
    IF a.name = b.name /\ SameValue(a, b) THEN XTrue ELSE XFalse

\* ------------------------------------------------------------ Rust layer

\* notify_func as it would be if the name kept its terminator
notify_func_raw_name(c) ==
    [cb |-> "notify", name |-> c.name, action |-> c.action, setting |-> c.setting]

\* notify_func as it would be if it handed the closure a null setting
notify_func_null_setting(c) ==
    [cb |-> "notify", name |-> CStrBytes(c.name), action |-> c.action,
     setting |-> NullSetting]

\* the closure invocation one native notify call becomes
notify_func(c) ==
    [cb |-> "notify", name |-> CStrBytes(c.name), action |-> c.action,
     setting |-> c.setting]

\* watch_func as it would be with the test of is_start inverted
watch_func_inverted(c) ==
    [cb |-> "watch", window |-> c.window, is_start |-> (c.is_start = XFalse)]

\* the closure invocation one native watch call becomes
watch_func(c) ==
    [cb |-> "watch", window |-> c.window, is_start |-> (c.is_start # XFalse)]

Trampoline(nativeCalls) ==
    [i \in 1..Len(nativeCalls) |->
        IF nativeCalls[i].fn = "notify" THEN notify_func(nativeCalls[i])
        ELSE watch_func(nativeCalls[i])]

IsNotify(c) == c.cb = "notify"
IsWatch(c) == c.cb = "watch"

\* the windows whose latest watch call is a start, after the calls of log
RECURSIVE Watched(_, _)
Watched(set, log) ==
    IF log = <<>> THEN set
    ELSE LET c == Head(log)
         IN  Watched(IF ~IsWatch(c) THEN set
                     ELSE IF c.is_start THEN set \cup {c.window}
                     ELSE set \ {c.window},
                     Tail(log))

\* SettingData::from_raw on the setting a pointer leads to
from_raw(setting) ==
    CASE setting.type = TypeInt -> [variant |-> "Int", data |-> setting.value]
      [] setting.type = TypeString ->
            [variant |-> "String", data |-> CStrBytes(CStr(setting.value))]
      [] setting.type = TypeColor -> [variant |-> "Color", data |-> setting.value]
      [] OTHER -> [variant |-> "None", data |-> 0]

\* ------------------------------------------------------------ storage

Addrs == 1..MaxOwned

FreeCell == [state |-> "free", setting |-> NullSetting]

LiveCell(setting) == [state |-> "live", setting |-> setting]

\* the address an allocation returns: the lowest free one
Alloc(h) == CHOOSE a \in Addrs : h[a].state = "free" /\ \A b \in Addrs : h[b].state = "free" => a <= b

HasRoom(h) == \E a \in Addrs : h[a].state = "free"

\* the setting a pointer leads to
Deref(h, p) == h[p].setting

\* xsettings_setting_free
xsettings_setting_free(h, p) ==
    IF h[p].state = "live" THEN [heap |-> [h EXCEPT ![p] = FreeCell], fault |-> "none"]
    ELSE [heap |-> h, fault |-> "double free"]

\* ------------------------------------------------------------ the Client value

NoClient == [at |-> "nowhere", native |-> "none", cb_data |-> "null", closures |-> "none"]

\* the address of the Callbacks of a Client value that lives at "at", were
\* they a field of the value itself
CallbacksAt_inline(at) == at

\* the address of the Callbacks of a Client value that lives at "at": they
\* are boxed, so on the heap wherever the value is
CallbacksAt(at) == "heap"

\* the Client value Client::new returns: built in its frame, cb_data taken
\* there, then moved to the caller
Client_new ==
    LET built == [at |-> "new", native |-> "alive", cb_data |-> CallbacksAt("new"),
                  closures |-> "allocated"]
    IN  [built EXCEPT !.at = "caller"]

\* Client::new
ClientNew(r, read) ==
    /\ phase = "unbuilt"
    /\ LET n == xsettings_client_new(r, read)
           log == Trampoline(n.calls)
       IN  /\ owner' = n.owner
           /\ snapshot' = n.snapshot
           /\ calls' = log
           /\ watching' = Watched(watching, log)
           /\ last' = [NoOp EXCEPT !.op = "new", !.resolved = r,
                                   !.kind = IF n.decoded = "none" THEN "none" ELSE read.kind,
                                   !.source = IF n.decoded = "none" THEN <<>> ELSE read.source,
                                   !.decoded = n.decoded]
    /\ phase' = "live"
    /\ client' = Client_new
    /\ UNCHANGED <<owned, heap, fault>>

\* process_event as it would be with the test of the native result inverted
process_event_inverted(st, ev, r, read) ==
    LET n == xsettings_client_process_event(st, ev, r, read)
    IN  [n EXCEPT !.ret = (n.ret = XFalse)]

\* Client::process_event: what it leaves and what it returns
process_event(st, ev, r, read) ==
    LET n == xsettings_client_process_event(st, ev, r, read)
    IN  [n EXCEPT !.ret = (n.ret # XFalse)]

ProcessEvent(ev, r, read) ==
    /\ phase = "live"
    /\ LET n == process_event(Here, ev, r, read)
           log == Trampoline(n.calls)
       IN  /\ owner' = n.owner
           /\ snapshot' = n.snapshot
           /\ calls' = log
           /\ watching' = Watched(watching, log)
           /\ last' = [NoOp EXCEPT !.op = "process_event", !.event = ev,
                                   !.kind = IF n.decoded = "none" THEN "none" ELSE read.kind,
                                   !.source = IF n.decoded = "none" THEN <<>> ELSE read.source,
                                   !.resolved = r, !.decoded = n.decoded,
                                   !.ret = [tag |-> "bool", val |-> n.ret]]
    /\ UNCHANGED <<phase, owned, heap, fault, client>>

\* the read of an event that leads to no read
NoRead == [kind |-> "none", source |-> <<>>, d |-> DecodeFailed]

ProcessPropertyNotify ==
    \E w \in Windows :
        IF w = owner THEN \E read \in Reads : ProcessEvent(PropertyNotify(w), 0, read)
        ELSE ProcessEvent(PropertyNotify(w), 0, NoRead)

ProcessOwnerChange ==
    \/ \E r \in Windows, read \in Reads : ProcessEvent(OwnerChange(TRUE), r, read)
    \/ ProcessEvent(OwnerChange(TRUE), 0, NoRead)
    \/ ProcessEvent(OwnerChange(FALSE), 0, NoRead)

ProcessOther ==
    \E w \in 0..MaxWindow : ProcessEvent(OtherEvent(w), 0, NoRead)

\* Client::get_setting; keep: whether the caller keeps the Setting it gets
\* (the native lookup hands out a copy in storage of its own, which the
\* Setting owns; a Setting not kept is dropped at once)
get_setting(name, keep) ==
    /\ phase = "live"
    /\ IF ~CStringNewOk(name)
       THEN /\ phase' = "panicked"
            /\ last' = [NoOp EXCEPT !.op = "get_setting", !.arg = name,
                                    !.ret = [tag |-> "panic", val |-> 0]]
            /\ UNCHANGED <<owned, heap>>
       ELSE LET n == xsettings_client_get_setting(Here, CStr(name))
            IN  /\ phase' = phase
                /\ last' = [NoOp EXCEPT !.op = "get_setting", !.arg = name,
                              !.ret = IF n.result = Success
                                      THEN [tag |-> "Ok", val |-> n.setting]
                                      ELSE [tag |-> "Err", val |-> n.result]]
                /\ IF keep /\ n.result = Success
                   THEN /\ owned' = Append(owned, Alloc(heap))
                        /\ heap' = [heap EXCEPT ![Alloc(heap)] = LiveCell(n.setting)]
                   ELSE UNCHANGED <<owned, heap>>
    /\ calls' = <<>>
    /\ UNCHANGED <<owner, snapshot, watching, fault, client>>

GetSetting == \E name \in LookupNames : get_setting(name, FALSE)

Init ==
    /\ phase = "unbuilt"
    /\ owner = 0
    /\ snapshot = <<>>
    /\ calls = <<>>
    /\ watching = {}
    /\ last = NoOp
    /\ owned = <<>>
    /\ heap = [a \in Addrs |-> FreeCell]
    /\ fault = "none"
    /\ client = NoClient

\* Drop for Client, the body of drop as it would be if it let go of the
\* closures and left the native client alone
Client_drop_releasing(c) == [c EXCEPT !.closures = "released"]

\* Drop for Client, the body of drop: xsettings_client_destroy
Client_drop(c) == [c EXCEPT !.native = "destroyed"]

\* the Client goes out of scope: drop runs; the native client and its list
\* are gone, no callback is made
DropClient ==
    /\ phase = "live"
    /\ phase' = "dropping"
    /\ client' = Client_drop(client)
    /\ owner' = 0
    /\ snapshot' = <<>>
    /\ calls' = <<>>
    /\ last' = [NoOp EXCEPT !.op = "drop"]
    /\ UNCHANGED <<watching, owned, heap, fault>>

\* after drop has run the fields are dropped: the Box of the Callbacks
DropCallbacks ==
    /\ phase = "dropping"
    /\ phase' = "destroyed"
    /\ client' = [client EXCEPT !.closures = "released", !.at = "nowhere"]
    /\ calls' = <<>>
    /\ last' = [NoOp EXCEPT !.op = "drop"]
    /\ UNCHANGED <<owner, snapshot, watching, owned, heap, fault>>

New ==
    \/ \E r \in Windows, read \in Reads : ClientNew(r, read)
    \/ ClientNew(0, NoRead)

Next ==
    \/ New
    \/ ProcessPropertyNotify
    \/ ProcessOwnerChange
    \/ ProcessOther
    \/ GetSetting
    \/ DropClient
    \/ DropCallbacks

Spec == Init /\ [][Next]_vars

\* ------------------------------------------------------------ owned Settings

\* Clone for Setting as it would be if the copy were the same pointer
Setting_clone_alias(h, p) == [heap |-> h, ptr |-> p]

\* Clone for Setting: the native copy, in storage of its own
Setting_clone(h, p) ==
    LET q == Alloc(h)
    IN  [heap |-> [h EXCEPT ![q] = LiveCell(xsettings_setting_copy(Deref(h, p)))],
         ptr |-> q]

\* Drop for Setting as it would be without the free
Setting_drop_forgotten(h, p) == [heap |-> h, fault |-> "none"]

\* Drop for Setting
Setting_drop(h, p) == xsettings_setting_free(h, p)

\* Setting's eq as it would be if 0 were taken for "equal", as of strcmp
Setting_eq_zero_is_equal(a, b) == xsettings_setting_equal(a, b) = 0

\* PartialEq for Setting
Setting_eq(a, b) == xsettings_setting_equal(a, b) # 0

\* the owned Settings are the caller's: they can be used with or without
\* the Client, but not while one of its operations runs
CallerRuns == phase \in {"live", "destroyed"}

\* reading through a pointer whose storage was freed
Dangling(h, p) == h[p].state # "live"

\* let copy = owned[i].clone()
Clone(i) ==
    /\ CallerRuns
    /\ Len(owned) < MaxOwned
    /\ HasRoom(heap)
    /\ LET c == Setting_clone(heap, owned[i])
       IN  /\ owned' = Append(owned, c.ptr)
           /\ heap' = c.heap
    /\ fault' = IF Dangling(heap, owned[i]) THEN "use after free" ELSE fault
    /\ last' = [NoOp EXCEPT !.op = "clone", !.arg = <<i>>]
    /\ calls' = <<>>
    /\ UNCHANGED <<phase, owner, snapshot, watching, client>>

\* owned[i] == owned[j]
Eq(i, j) ==
    /\ CallerRuns
    /\ last' = [NoOp EXCEPT !.op = "eq", !.arg = <<i, j>>,
                            !.ret = [tag |-> "bool",
                                     val |-> Setting_eq(Deref(heap, owned[i]),
                                                        Deref(heap, owned[j]))]]
    /\ fault' = IF Dangling(heap, owned[i]) \/ Dangling(heap, owned[j])
                THEN "use after free" ELSE fault
    /\ calls' = <<>>
    /\ UNCHANGED <<phase, owner, snapshot, watching, owned, heap, client>>

\* owned[i] goes out of scope
Drop(i) ==
    /\ CallerRuns
    /\ LET d == Setting_drop(heap, owned[i])
       IN  /\ heap' = d.heap
           /\ fault' = IF d.fault # "none" THEN d.fault ELSE fault
    /\ owned' = [k \in 1..(Len(owned) - 1) |-> IF k < i THEN owned[k] ELSE owned[k + 1]]
    /\ last' = [NoOp EXCEPT !.op = "drop_setting", !.arg = <<i, owned[i]>>]
    /\ calls' = <<>>
    /\ UNCHANGED <<phase, owner, snapshot, watching, client>>

\* the reads of well-formed blobs of at most one setting
SmallReads == {x \in Reads : x.kind = "good" /\ Len(x.source) <= 1}

NewSmall == \E read \in SmallReads : ClientNew(1, read)

PropertySmall ==
    /\ owner # 0
    /\ \E read \in SmallReads : ProcessEvent(PropertyNotify(owner), 0, read)

OwnerLost == ProcessEvent(OwnerChange(TRUE), 0, NoRead)

GetSettingKeep ==
    /\ Len(owned) < MaxOwned
    /\ HasRoom(heap)
    /\ \E name \in BlobNames : get_setting(name, TRUE)

CloneSetting == \E i \in 1..Len(owned) : Clone(i)

EqSettings == \E i, j \in 1..Len(owned) : Eq(i, j)

DropSetting == \E i \in 1..Len(owned) : Drop(i)

NextOwned ==
    \/ NewSmall
    \/ PropertySmall
    \/ OwnerLost
    \/ GetSettingKeep
    \/ CloneSetting
    \/ EqSettings
    \/ DropSetting
    \/ DropClient
    \/ DropCallbacks

\* a caller that keeps, copies, compares and drops the Settings it looks up
SpecOwned == Init /\ [][NextOwned]_vars

\* ------------------------------------------------------------ longer lists

NameLong == <<97, 98>>       \* "ab"

MaxOrderLen == 3

OrderNames == {NameLower, NameUpper, NameAbsent, NameLong}

\* every name with one value, "a" with a second one
OrderEntries ==
    {[name |-> n, type |-> TypeInt, value |-> 1, serial |-> 1] : n \in OrderNames}
    \cup {[name |-> NameLower, type |-> TypeInt, value |-> 2, serial |-> 1]}

RECURSIVE ListsOver(_, _)
ListsOver(entries, n) ==
    IF n = 0 THEN {<<>>}
    ELSE LET shorter == ListsOver(entries, n - 1)
         IN  shorter \cup {Append(l, e) : l \in {x \in shorter : Len(x) = n - 1},
                                          e \in entries}

OrderLists == {l \in ListsOver(OrderEntries, MaxOrderLen) : NoDupNames(l)}

OrderReads ==
    {[kind |-> "good", source |-> l, d |-> Decode(Encode(l, LSBFirst, 1))] :
        l \in OrderLists}

NewOrder == \E read \in OrderReads : ClientNew(1, read)

PropertyOrder ==
    /\ owner # 0
    /\ \E read \in OrderReads : ProcessEvent(PropertyNotify(owner), 0, read)

NextOrder ==
    \/ NewOrder
    \/ PropertyOrder

\* a session whose owner publishes lists of up to MaxOrderLen of four names
SpecOrder == Init /\ [][NextOrder]_vars

\* ------------------------------------------------------------ codec round trip

MaxCodecLen == 2

NameFour == <<97, 98, 99, 100>>     \* "abcd": no padding after it

CodecNames == {NameLower, NameLong, NameFour}

\* integers to both ends of their range, strings empty, padded, unpadded,
\* of bytes that are no text and with a NUL inside, colors to both ends
CodecValues ==
    {[type |-> TypeInt, value |-> v] : v \in {0, 1, -1, 2147483647, -2147483647 - 1}}
    \cup {[type |-> TypeString, value |-> v] :
            v \in {<<>>, <<120>>, <<120, 121, 122, 119>>, <<255, 128>>, <<120, 0, 121>>}}
    \cup {[type |-> TypeColor, value |-> v] :
            v \in {<<0, 0, 0, 0>>, <<65535, 65535, 65535, 65535>>, <<1, 256, 65535, 0>>}}

CodecEntries ==
    {[name |-> n, type |-> v.type, value |-> v.value, serial |-> 1] :
        n \in CodecNames, v \in CodecValues}
    \cup {[name |-> NameLower, type |-> TypeInt, value |-> 1, serial |-> s] :
            s \in {0, 2147483647}}

CodecLists == {l \in ListsOver(CodecEntries, MaxCodecLen) : NoDupNames(l)}

\* a list to encode and the byte order to encode it in
InitCodec ==
    /\ phase = "unbuilt"
    /\ owner = 0
    /\ snapshot = <<>>
    /\ calls = <<>>
    /\ watching = {}
    /\ \E l \in CodecLists, order \in {LSBFirst, MSBFirst} :
          last = [NoOp EXCEPT !.op = "input", !.source = l, !.resolved = order]
    /\ owned = <<>>
    /\ heap = [a \in Addrs |-> FreeCell]
    /\ fault = "none"
    /\ client = NoClient

\* encode the list, decode the bytes: snapshot is the list decoded
RoundTrip ==
    /\ last.op = "input"
    /\ LET d == Decode(Encode(last.source, last.resolved, 1))
       IN  /\ snapshot' = d.list
           /\ last' = [last EXCEPT !.op = "round_trip",
                                   !.decoded = IF d.ok THEN "ok" ELSE "failed"]
    /\ UNCHANGED <<phase, owner, calls, watching, owned, heap, fault, client>>

SpecCodec == InitCodec /\ [][RoundTrip]_vars

\* a decoded setting as the Rust layer reads it: the name a C string, the
\* value through SettingData::from_raw
RustView(setting) ==
    [name |-> CStrBytes(CStr(setting.name)), data |-> from_raw(setting),
     serial |-> setting.serial]

\* a setting as it was before encoding
Original(setting) ==
    [name |-> setting.name,
     data |-> [variant |-> CASE setting.type = TypeInt -> "Int"
                             [] setting.type = TypeString -> "String"
                             [] setting.type = TypeColor -> "Color",
               data |-> setting.value],
     serial |-> setting.serial]

\* ------------------------------------------------------------ claims

NamesOf(list) == {list[i].name : i \in 1..Len(list)}

NotifyCalls(log) == SelectSeq(log, IsNotify)
WatchCalls(log) == SelectSeq(log, IsWatch)

\* the actions notify was invoked with for name n, in order
ActionsNamed(log, n) ==
    LET Named(c) == IsNotify(c) /\ c.name = n
        hits == SelectSeq(log, Named)
    IN  [i \in 1..Len(hits) |-> hits[i].action]

\* l is the record of a property-notify on the tracked window
IsPropertyChange(l) ==
    l.op = "process_event" /\ l.event.type = "PropertyNotify" /\ l.decoded # "none"

\* what the claim expects for name n between snapshot a and decoded list b
ExpectedActions(a, b, n) ==
    IF HasName(b, n) /\ ~HasName(a, n) THEN <<ActionNew>>
    ELSE IF HasName(a, n) /\ ~HasName(b, n) THEN <<ActionDeleted>>
    ELSE IF HasName(a, n) /\ HasName(b, n)
            /\ (a[IndexOf(a, n)].type # b[IndexOf(b, n)].type
                \/ a[IndexOf(a, n)].value # b[IndexOf(b, n)].value)
         THEN <<ActionChanged>>
    ELSE <<>>

\* C1: a property change whose blob B decodes invokes notify exactly once
\* with New for each name only in B, once with Deleted for each name only in
\* the old snapshot, once with Changed for each name in both whose type or
\* value differs, and not at all for any other name.
C1_DiffCompleteness ==
    [][(IsPropertyChange(last') /\ last'.decoded = "ok") =>
         /\ last'.kind = "good"
         /\ \A i \in 1..Len(calls') :
               IsNotify(calls'[i]) /\
               calls'[i].name \in NamesOf(snapshot) \cup NamesOf(last'.source)
         /\ \A n \in NamesOf(snapshot) \cup NamesOf(last'.source) :
               ActionsNamed(calls', n) = ExpectedActions(snapshot, last'.source, n)]_vars

C1_Witness ==
    /\ IsPropertyChange(last) /\ last.decoded = "ok"
    /\ Len(snapshot) = 2
    /\ \E i, j \in 1..Len(calls) :
          /\ IsNotify(calls[i]) /\ calls[i].action = ActionChanged
          /\ IsNotify(calls[j]) /\ calls[j].action = ActionNew

\* C2: a property change whose blob fails to decode leaves the snapshot as
\* it was and invokes no notify callback.
C2_DecodeRejection ==
    [][(IsPropertyChange(last')
          /\ (last'.kind \in {"truncated", "tag", "namelen", "count"}
              \/ last'.decoded = "failed")) =>
         /\ last'.decoded = "failed"
         /\ snapshot' = snapshot
         /\ NotifyCalls(calls') = <<>>]_vars

C2_Witness ==
    /\ IsPropertyChange(last) /\ last.decoded = "failed"
    /\ last.kind = "truncated"
    /\ Len(snapshot) = 2

\* C3: get_setting(name) returns Ok with the snapshot's entry of exactly
\* that name when there is one and the NoEntry error otherwise, leaves the
\* snapshot and the owner window as they were and invokes no callback.
C3_Lookup ==
    [][last'.op = "get_setting" =>
         /\ IF HasName(snapshot, last'.arg)
            THEN /\ last'.ret.tag = "Ok"
                 /\ last'.ret.val = snapshot[IndexOf(snapshot, last'.arg)]
            ELSE /\ last'.ret.tag = "Err"
                 /\ last'.ret.val = NoEntry
         /\ snapshot' = snapshot
         /\ owner' = owner
         /\ calls' = <<>>]_vars

\* C4: for every byte-string name, get_setting returns a Setting or an Error
\* value to its caller; a lookup never aborts.
C4_LookupReturns ==
    last.op = "get_setting" => (last.ret.tag \in {"Ok", "Err"} /\ phase = "live")

\* an event process_event has a use for, given the tracked window
Relevant(ev, tracked) ==
    \/ ev.type = "PropertyNotify" /\ tracked # 0 /\ ev.window = tracked
    \/ ev.type = "OwnerChange" /\ ev.settings

\* C5: for an event that is neither a property-notify on the tracked window
\* nor an owner change of the settings selection, process_event returns
\* false, leaves owner window and snapshot as they were and invokes no
\* callback.
C5_IrrelevantEvents ==
    [][(last'.op = "process_event" /\ ~Relevant(last'.event, owner)) =>
         /\ last'.ret.tag = "bool"
         /\ last'.ret.val = FALSE
         /\ phase' = phase
         /\ owner' = owner
         /\ snapshot' = snapshot
         /\ calls' = <<>>]_vars

C5_Witness ==
    /\ last.op = "process_event"
    /\ last.event.type = "PropertyNotify"
    /\ owner # 0
    /\ last.event.window # owner
    /\ Len(snapshot) = 2
    /\ last.ret.val = FALSE

\* l is the record of an owner change of the settings selection
IsOwnerChange(l) ==
    l.op = "process_event" /\ l.event.type = "OwnerChange" /\ l.event.settings

\* C6: when a Bound session processes the loss of the owner window, notify
\* is invoked with Deleted exactly once for every entry of the snapshot, in
\* the snapshot's order, then watch with is_start = false for the old
\* window; with no new owner the snapshot ends empty and the session Unbound.
C6_OwnerLoss ==
    [][(IsOwnerChange(last') /\ owner # 0) =>
         LET k == Len(snapshot)
         IN  /\ Len(calls') >= k + 1
             /\ \A i \in 1..k :
                   /\ IsNotify(calls'[i])
                   /\ calls'[i].name = snapshot[i].name
                   /\ calls'[i].action = ActionDeleted
             /\ calls'[k + 1] = [cb |-> "watch", window |-> owner, is_start |-> FALSE]
             /\ \A i \in (k + 2)..Len(calls') :
                   IsNotify(calls'[i]) => calls'[i].action # ActionDeleted
             /\ last'.resolved = 0 =>
                   /\ Len(calls') = k + 1
                   /\ snapshot' = <<>>
                   /\ owner' = 0]_vars

C6_Witness ==
    /\ IsOwnerChange(last)
    /\ last.resolved = 0
    /\ owner = 0
    /\ Len(calls) = 3
    /\ IsNotify(calls[1]) /\ calls[1].action = ActionDeleted
    /\ IsNotify(calls[2]) /\ calls[2].action = ActionDeleted
    /\ IsWatch(calls[3])

\* every stop of log is for a window whose latest watch call was a start
RECURSIVE StopsMatched(_, _)
StopsMatched(set, log) ==
    IF log = <<>> THEN TRUE
    ELSE LET c == Head(log)
         IN  /\ (IsWatch(c) /\ ~c.is_start) => c.window \in set
             /\ StopsMatched(Watched(set, <<c>>), Tail(log))

\* the watch calls the claim expects of a step: tracked is the owner window
\* before it, l the record of the operation
ExpectedWatch(tracked, l) ==
    LET stop == IF tracked # 0
                THEN <<[cb |-> "watch", window |-> tracked, is_start |-> FALSE]>>
                ELSE <<>>
        start == IF l.resolved # 0
                 THEN <<[cb |-> "watch", window |-> l.resolved, is_start |-> TRUE]>>
                 ELSE <<>>
    IN  IF l.op = "new" THEN start
        ELSE IF IsOwnerChange(l) THEN stop \o start
        ELSE <<>>

\* C7: an owner-window transition invokes watch exactly twice, with
\* is_start = false for the old window and then with is_start = true for the
\* new one; the start of a bind comes before every New of its decode; and
\* watch is never invoked with is_start = false for a window without an
\* earlier unmatched start.
C7_WatchPairs ==
    [][/\ WatchCalls(calls') = ExpectedWatch(owner, last')
       /\ \A i, j \in 1..Len(calls') :
             (IsNotify(calls'[i]) /\ calls'[i].action = ActionNew
                /\ IsWatch(calls'[j]) /\ calls'[j].is_start) => j < i
       /\ StopsMatched(watching, calls')]_vars

C7_Witness ==
    /\ IsOwnerChange(last)
    /\ owner # 0
    /\ Len(WatchCalls(calls)) = 2
    /\ ~WatchCalls(calls)[1].is_start
    /\ WatchCalls(calls)[2].is_start
    /\ WatchCalls(calls)[1].window # WatchCalls(calls)[2].window
    /\ \E i \in 1..Len(calls) : IsNotify(calls[i]) /\ calls[i].action = ActionNew

\* the last operation was a property change whose blob failed to decode
FailedPropertyChange == IsPropertyChange(last) /\ last.decoded = "failed"

\* C8 as stated: on a failed decode in Bound, process_event hands Failed to
\* its caller and the session stays Bound on the same owner window.
C8_FailedPropagated ==
    FailedPropertyChange =>
        /\ last.ret.tag = "Err"
        /\ last.ret.val = Failed
        /\ phase = "live"
        /\ owner = last.event.window

\* C8 as amended: on a failed decode in Bound, process_event returns the
\* bool true (the event was consumed; no Failed value reaches the caller)
\* and the session stays Bound on the same owner window.
C8_FailedConsumed ==
    FailedPropertyChange =>
        /\ last.ret.tag = "bool"
        /\ last.ret.val = TRUE
        /\ phase = "live"
        /\ owner # 0
        /\ owner = last.event.window

C8_Witness ==
    /\ FailedPropertyChange
    /\ last.kind = "tag"
    /\ Len(snapshot) = 1

\* C9: two owned Settings are equal iff their name, type and value are
\* equal, whatever their serials; a clone is equal to its original.
C9_Equality ==
    /\ last.op = "eq" =>
          LET a == Deref(heap, owned[last.arg[1]])
              b == Deref(heap, owned[last.arg[2]])
          IN  last.ret.val = (a.name = b.name /\ a.type = b.type /\ a.value = b.value)
    /\ last.op = "clone" => Setting_eq(Deref(heap, owned[last.arg[1]]),
                                       Deref(heap, owned[Len(owned)]))

C9_Witness ==
    /\ last.op = "eq"
    /\ last.ret.val = TRUE
    /\ Deref(heap, owned[last.arg[1]]).serial # Deref(heap, owned[last.arg[2]]).serial

\* C10: constructing a Client resolves the owner at once; with an owner
\* whose blob decodes the session is Bound, the snapshot is the decoded list
\* and notify is invoked with New exactly once per entry; with no owner or a
\* failed decode the session is Unbound, the snapshot empty and no New fired.
C10_InitialBind ==
    last.op = "new" =>
        IF last.resolved # 0 /\ last.kind = "good"
        THEN /\ last.decoded = "ok"
             /\ owner = last.resolved
             /\ snapshot = last.source
             /\ Len(NotifyCalls(calls)) = Len(last.source)
             /\ \A n \in NamesOf(last.source) : ActionsNamed(calls, n) = <<ActionNew>>
        ELSE /\ last.decoded # "ok"
             /\ owner = 0
             /\ snapshot = <<>>
             /\ NotifyCalls(calls) = <<>>

C10_Witness ==
    /\ last.op = "new"
    /\ last.decoded = "ok"
    /\ owner # 0
    /\ Len(snapshot) = 2
    /\ Len(NotifyCalls(calls)) = 2

\* the names, types and values of a list, in order
ValuesOf(list) ==
    [i \in 1..Len(list) |->
        [name |-> list[i].name, type |-> list[i].type, value |-> list[i].value]]

\* C11: a property change whose blob is the one the snapshot was decoded
\* from (the empty blob on an empty snapshot included) invokes no notify
\* callback, leaves the names, types and values of the snapshot as they
\* were, and is not an error: the decode succeeds and the event is consumed.
C11_Idempotence ==
    [][(IsPropertyChange(last') /\ last'.kind = "good" /\ last'.source = snapshot) =>
         /\ last'.decoded = "ok"
         /\ last'.ret = [tag |-> "bool", val |-> TRUE]
         /\ NotifyCalls(calls') = <<>>
         /\ ValuesOf(snapshot') = ValuesOf(snapshot)
         /\ owner' = owner
         /\ phase' = phase]_vars

C11_Witness ==
    /\ IsPropertyChange(last) /\ last.decoded = "ok"
    /\ last.source = snapshot
    /\ Len(snapshot) = 2
    /\ calls = <<>>
    /\ last.ret.val = TRUE

\* the notify calls of log as (name, action) pairs, in order
NotifySequence(log) ==
    LET n == NotifyCalls(log)
    IN  [i \in 1..Len(n) |-> <<n[i].name, n[i].action>>]

\* the one sequence the claim allows between snapshot a and decoded list b
ExpectedSequence(a, b) ==
    LET Fresh(e) == IF ExpectedActions(a, b, e.name) \in {<<ActionNew>>, <<ActionChanged>>}
                    THEN <<<<e.name, ExpectedActions(a, b, e.name)[1]>>>> ELSE <<>>
        Gone(e) == IF ~HasName(b, e.name) THEN <<<<e.name, ActionDeleted>>>> ELSE <<>>
    IN  Flatten([i \in 1..Len(b) |-> Fresh(b[i])], Len(b))
          \o Flatten([i \in 1..Len(a) |-> Gone(a[i])], Len(a))

\* C15: within one successful property change every New and Changed is
\* dispatched in the order of the names in the new blob, every Deleted after
\* all of them and in the order of the old snapshot; the sequence is a
\* function of the old snapshot and the new blob alone.
C15_DispatchOrder ==
    [][(IsPropertyChange(last') /\ last'.decoded = "ok") =>
         LET log == NotifyCalls(calls')
             new == last'.source
         IN  /\ NotifySequence(calls') = ExpectedSequence(snapshot, new)
             /\ \A i, j \in 1..Len(log) :
                   i < j =>
                     /\ log[i].action = ActionDeleted => log[j].action = ActionDeleted
                     /\ log[j].action # ActionDeleted =>
                           IndexOf(new, log[i].name) < IndexOf(new, log[j].name)
                     /\ log[i].action = ActionDeleted =>
                           IndexOf(snapshot, log[i].name) < IndexOf(snapshot, log[j].name)]_vars

C15_Witness ==
    /\ IsPropertyChange(last) /\ last.decoded = "ok"
    /\ Len(snapshot) = 2
    /\ Len(calls) = 4
    /\ calls[1].action = ActionNew /\ calls[1].name = snapshot[1].name
    /\ calls[2].action = ActionChanged /\ calls[2].name = snapshot[2].name
    /\ calls[3].action = ActionDeleted
    /\ calls[4].action = ActionDeleted

\* the read of the well-formed blob that encodes list
GoodRead(list) == [kind |-> "good", source |-> list, d |-> [ok |-> TRUE, list |-> list]]

DuplicateRead(l) == l.kind = "duplicate"

\* C17: in every reachable state no two entries of the snapshot have the
\* same name; a blob that holds a name twice fails to decode, and as a
\* property change it leaves the snapshot as it was and invokes no callback.
C17_NameUniqueness ==
    [][/\ NoDupNames(snapshot')
       /\ DuplicateRead(last') =>
             /\ last'.decoded = "failed"
             /\ IsPropertyChange(last') => (snapshot' = snapshot /\ calls' = <<>>)
             /\ last'.op = "new" => snapshot' = <<>>]_vars

C17_Witness ==
    /\ IsPropertyChange(last)
    /\ DuplicateRead(last)
    /\ last.decoded = "failed"
    /\ Len(snapshot) = 2
    /\ NoDupNames(snapshot)

\* the settings the pointers of list lead to, in order
Contents(h, list) == [i \in 1..Len(list) |-> Deref(h, list[i])]

Without(list, i) ==
    [k \in 1..(Len(list) - 1) |-> IF k < i THEN list[k] ELSE list[k + 1]]

AllLive(h, list) == \A i \in 1..Len(list) : h[list[i]].state = "live"

\* C12: an owned Setting (from get_setting or from clone) keeps its name,
\* type, value and serial through every later operation: snapshot
\* replacement, owner loss, the drop of the Client, and the clone or drop of
\* another Setting; a clone or drop of a Setting leaves the snapshot alone;
\* a Setting from get_setting holds the entry looked up, a clone what its
\* original holds.
C12_OwnedIndependent ==
    [][/\ last'.op # "drop_setting" =>
             /\ Len(owned') >= Len(owned)
             /\ SubSeq(Contents(heap', owned'), 1, Len(owned)) = Contents(heap, owned)
       /\ last'.op = "drop_setting" =>
             Contents(heap', owned') = Without(Contents(heap, owned), last'.arg[1])
       /\ AllLive(heap', owned')
       /\ last'.op \in {"clone", "eq", "drop_setting"} =>
             (snapshot' = snapshot /\ owner' = owner /\ phase' = phase)
       /\ (last'.op = "clone" /\ Len(owned') > Len(owned)) =>
             Deref(heap', owned'[Len(owned')]) = Deref(heap, owned[last'.arg[1]])
       /\ (last'.op = "get_setting" /\ Len(owned') > Len(owned)) =>
             /\ HasName(snapshot, last'.arg)
             /\ Deref(heap', owned'[Len(owned')]) =
                  snapshot[IndexOf(snapshot, last'.arg)]]_vars

C12_Witness ==
    /\ phase = "destroyed"
    /\ snapshot = <<>>
    /\ last.op = "drop_setting"
    /\ Len(owned) = 1
    /\ heap[owned[1]].state = "live"
    /\ Deref(heap, owned[1]).type = TypeString

\* C13: once the Client is dropped the session is destroyed for good, no
\* closure is invoked from the start of the drop on, and the closures are
\* released at its end; while the native client is alive the closures are
\* allocated at the address it was given at construction, and no closure is
\* invoked unless so.
C13_DestructionTerminal ==
    [][/\ client'.native = "alive" =>
             /\ client'.closures = "allocated"
             /\ client'.cb_data = CallbacksAt(client'.at)
       /\ calls' # <<>> =>
             /\ client'.native = "alive"
             /\ client'.closures = "allocated"
       /\ last'.op = "drop" =>
             /\ phase' \in {"dropping", "destroyed"}
             /\ client'.native = "destroyed"
       /\ phase \in {"dropping", "destroyed"} =>
             /\ phase' = "destroyed"
             /\ calls' = <<>>
             /\ owner' = owner /\ snapshot' = snapshot /\ watching' = watching
       /\ phase' = "destroyed" =>
             /\ client'.native = "destroyed"
             /\ client'.closures = "released"]_vars

C13_Witness ==
    /\ phase = "destroyed"
    /\ client.native = "destroyed"
    /\ client.closures = "released"
    /\ watching # {}
    /\ last.op = "eq"
    /\ calls = <<>>

LiveAddrs(h) == {a \in Addrs : h[a].state = "live"}

PointersOf(list) == {list[i] : i \in 1..Len(list)}

\* C18: the storage of an owned Setting is released when that Setting is
\* dropped, once: no free of freed storage and no read through a dangling
\* pointer; every owned Setting has storage of its own, and the storage in
\* use is that of the Settings held; an operation that invokes callbacks
\* releases none, and what a New or Changed callback was handed is still an
\* entry of the snapshot afterwards.
C18_StorageRelease ==
    [][/\ fault' = "none"
       /\ \A i, j \in 1..Len(owned') : owned'[i] = owned'[j] => i = j
       /\ LiveAddrs(heap') = PointersOf(owned')
       /\ last'.op = "drop_setting" =>
             LET p == last'.arg[2]
             IN  /\ heap[p].state = "live"
                 /\ heap'[p].state = "free"
                 /\ \A a \in Addrs \ {p} : heap'[a] = heap[a]
       /\ last'.op \in {"new", "process_event", "drop", "eq"} => heap' = heap
       /\ \A i \in 1..Len(calls') :
             (IsNotify(calls'[i]) /\ calls'[i].action # ActionDeleted) =>
                \E k \in 1..Len(snapshot') : snapshot'[k] = calls'[i].setting]_vars

C18_Witness ==
    /\ last.op = "drop_setting"
    /\ last.arg = <<1, 1>>
    /\ owned = <<2>>
    /\ heap[1].state = "free"
    /\ heap[2].state = "live"
    /\ fault = "none"

\* C14: encoding a list of settings with unique names and values of the
\* supported types in the wire format, in either byte order, and decoding
\* the bytes gives back the list: as many settings, in the same order, each
\* with the name, type, value and serial it had.
C14_RoundTrip ==
    last.op = "round_trip" =>
        /\ last.decoded = "ok"
        /\ Len(snapshot) = Len(last.source)
        /\ \A i \in 1..Len(snapshot) : RustView(snapshot[i]) = Original(last.source[i])

====
